---- MODULE Spec2Model ----
(***************************************************************************)
(* A model of the ping tool of src/ping.py: one call of Tools.ping, from   *)
(* the sanitising of the target to the report it returns.                  *)
(*                                                                         *)
(* A string is a sequence of one-character strings when the code looks at  *)
(* its characters (the target, the host), and a sequence of tokens when    *)
(* the code only trims it, lower-cases it and searches it (the output of   *)
(* the ping utility): a token is a piece of text that the searches of the  *)
(* code either match whole or not at all.                                  *)
(*                                                                         *)
(* Python's None is the empty tuple and a present value v is <<v>>.        *)
(***************************************************************************)
EXTENDS Integers, Sequences, FiniteSets, TLC

\* ------------------------------------------------------------------ bounds

\* Longest target enumerated exhaustively over Alphabet.
MaxLen == 4

\* Largest configured number of TCP attempts (Valves.tcp_attempts).
MaxAttempts == 4

\* ------------------------------------------------------- program constants

packet_count == 4
tcp_default_port == 443
tcp_attempts_default == 4
MaxErrorRows == 3

\* ------------------------------------------------------------------ values

None == << >>
Some(v) == <<v>>

Letters ==
  {"a","b","c","d","e","f","g","h","i","j","k","l","m",
   "n","o","p","q","r","s","t","u","v","w","x","y","z",
   "A","B","C","D","E","F","G","H","I","J","K","L","M",
   "N","O","P","Q","R","S","T","U","V","W","X","Y","Z"}

DigitVal ==
  [c \in {"0","1","2","3","4","5","6","7","8","9"} |->
     CASE c = "0" -> 0 [] c = "1" -> 1 [] c = "2" -> 2 [] c = "3" -> 3
       [] c = "4" -> 4 [] c = "5" -> 5 [] c = "6" -> 6 [] c = "7" -> 7
       [] c = "8" -> 8 [] c = "9" -> 9]

IsDigit(c) == c \in DOMAIN DigitVal

\* str.strip() with no argument removes these from both ends.
IsSpace(c) == c \in {" ", "\t", "\n", "\r"}

\* The character class of _ALLOWED_TARGET.
AllowedChars == Letters \cup DOMAIN DigitVal \cup {".", "-", ":", "%", "_", "[", "]"}

\* ---------------------------------------------------------- string helpers

RECURSIVE LStrip(_)
LStrip(s) == IF s # << >> /\ IsSpace(Head(s)) THEN LStrip(Tail(s)) ELSE s

RECURSIVE RStrip(_)
RStrip(s) ==
  IF s # << >> /\ IsSpace(s[Len(s)]) THEN RStrip(SubSeq(s, 1, Len(s) - 1)) ELSE s

\* str.strip()
Strip(s) == RStrip(LStrip(s))

\* str.count(c)
Count(s, c) == Cardinality({i \in 1..Len(s) : s[i] = c})

\* str.startswith(c) for a one-character prefix
StartsWith(s, c) == s # << >> /\ Head(s) = c

\* index of the first c in s, 0 when there is none (str.find, one-based)
Find(s, c) ==
  IF \E i \in 1..Len(s) : s[i] = c
    THEN CHOOSE i \in 1..Len(s) : s[i] = c /\ \A j \in 1..(i - 1) : s[j] # c
    ELSE 0

\* index of the last c in s, 0 when there is none (str.rfind, one-based)
RFind(s, c) ==
  IF \E i \in 1..Len(s) : s[i] = c
    THEN CHOOSE i \in 1..Len(s) : s[i] = c /\ \A j \in (i + 1)..Len(s) : s[j] # c
    ELSE 0

\* ----------------------------------------------------------------- int(str)

\* The digits of a Python integer literal: digits, single underscores only
\* between two digits.
ValidDigits(d) ==
  /\ d # << >>
  /\ \A i \in 1..Len(d) :
       \/ IsDigit(d[i])
       \/ /\ d[i] = "_"
          /\ i > 1 /\ i < Len(d)
          /\ IsDigit(d[i - 1]) /\ IsDigit(d[i + 1])

RECURSIVE DigitsValue(_, _)
DigitsValue(d, acc) ==
  IF d = << >> THEN acc
  ELSE IF Head(d) = "_" THEN DigitsValue(Tail(d), acc)
  ELSE DigitsValue(Tail(d), 10 * acc + DigitVal[Head(d)])

\* int(s) for a str s: Some(value), or None where Python raises ValueError.
IntParse(s) ==
  LET t == Strip(s)
      neg == StartsWith(t, "-")
      d == IF StartsWith(t, "-") \/ StartsWith(t, "+") THEN Tail(t) ELSE t
  IN IF ValidDigits(d)
       THEN Some(IF neg THEN 0 - DigitsValue(d, 0) ELSE DigitsValue(d, 0))
       ELSE None

\* ------------------------------------------------- sanitising and parsing

\* _sanitize without the match against _ALLOWED_TARGET.
SanitizeNoAllowList(target) ==
  IF Strip(target) = << >> THEN None ELSE Some(Strip(target))

\* Tools._sanitize: the trimmed target, or None.
Sanitize(target) ==
  LET t == Strip(target)
  IN IF t = << >> \/ ~(\A i \in 1..Len(t) : t[i] \in AllowedChars)
       THEN None
       ELSE Some(t)

\* The "[IPv6]:port" branch of _split_host_port. A target with no "]" fails
\* the unpacking of split("]", 1) and a port that int() rejects raises
\* ValueError: both are caught and give (target, None).
SplitBracket(target) ==
  LET body == Tail(target)
      k == Find(body, "]")
      host == SubSeq(body, 1, k - 1)
      rest == SubSeq(body, k + 1, Len(body))
  IN IF k = 0 THEN [host |-> target, port |-> None]
     ELSE IF StartsWith(rest, ":")
       THEN IF IntParse(Tail(rest)) = None
              THEN [host |-> target, port |-> None]
              ELSE [host |-> host, port |-> IntParse(Tail(rest))]
       ELSE [host |-> host, port |-> None]

\* The "host:port" branch of _split_host_port (exactly one colon).
SplitColon(target) ==
  LET k == RFind(target, ":")
      host == SubSeq(target, 1, k - 1)
      p == SubSeq(target, k + 1, Len(target))
  IN IF IntParse(p) = None
       THEN [host |-> target, port |-> None]
       ELSE [host |-> host, port |-> IntParse(p)]

\* Tools._split_host_port
SplitHostPort(target) ==
  IF StartsWith(target, "[") THEN SplitBracket(target)
  ELSE IF Count(target, ":") > 1 THEN [host |-> target, port |-> None]
  ELSE IF Count(target, ":") = 1 THEN SplitColon(target)
  ELSE [host |-> target, port |-> None]


\* ------------------------------------------------------------ the targets

\* The characters of the exhaustively enumerated targets: a letter, a digit,
\* the separators the parser looks at, a sign, a blank and a character
\* outside the allow-list.
Alphabet == {"a", "7", ":", "[", "]", "-", " ", ";"}

RECURSIVE SeqsUpTo(_, _)
SeqsUpTo(S, n) ==
  IF n = 0 THEN {<< >>}
  ELSE LET shorter == SeqsUpTo(S, n - 1)
       IN shorter \cup {Append(s, c) : s \in {t \in shorter : Len(t) = n - 1}, c \in S}

ShortTargets == SeqsUpTo(Alphabet, MaxLen)

\* Targets of the documented forms, and ports at and beyond the ends of the
\* port range.
SampleTargets ==
  {<<"[","2","0","0","1",":","d","b","8",":",":","1","]",":","8","0","8","0">>,
   <<"2","0","0","1",":","d","b","8",":",":","1">>,
   <<"e","x","a","m","p","l","e",".","c","o","m",":","9","9","9","9">>,
   <<"e","x","a","m","p","l","e",".","c","o","m",":","a","b","c">>,
   <<"a",":","0">>,
   <<"a",":","7","0","0","0","0">>,
   <<"a",":","6","5","5","3","5">>,
   <<"a",":","6","5","5","3","6">>,
   <<"a",":","-","1">>,
   <<"a",":","8","_","0">>,
   <<"[","a","]",":","0">>,
   <<"[","a","]",":","-","7">>,
   <<" ","a",":","8","0"," ">>,
   <<"a">>,
   <<";","r","m"," ","-","r","f"," ","/">>,
   <<"a"," ","b">>,
   <<"[",":",":","1","]">>,
   <<"[",":",":","1","]","x",":","7">>,
   <<":",":","1","]",":","7">>}

\* ------------------------------------------- the text of the ping utility

\* Python's "a or b" on strings and lists: a unless it is empty.
Or(a, b) == IF a # << >> THEN a ELSE b

\* str.lower(), token by token: the tokens of the vocabulary that hold an
\* upper-case letter, each with its lower-cased form.
Lower(tok) ==
  CASE tok = "ICMP" -> "icmp"
    [] tok = "Operation not permitted" -> "operation not permitted"
    [] tok = "Permission denied" -> "permission denied"
    [] tok = "CAP_NET_RAW" -> "cap_net_raw"
    [] tok = "Unknown host" -> "unknown host"
    [] tok = "Warning: source address might be selected on device other than eth0"
         -> "warning: source address might be selected on device other than eth0"
    [] tok = "From 10.0.0.1 " -> "from 10.0.0.1 "
    [] tok = "_seq=1 Destination Host Unreachable" -> "_seq=1 destination host unreachable"
    [] tok = "Request timed out." -> "request timed out."
    [] tok = "PING a (10.0.0.1) 56(84) bytes of data." -> "ping a (10.0.0.1) 56(84) bytes of data."
    [] tok = "[Errno 13] " -> "[errno 13] "
    [] tok = "[Errno 8] Exec format error: '/usr/bin/ping'"
         -> "[errno 8] exec format error: '/usr/bin/ping'"
    [] tok = "Ping failed" -> "ping failed"
    [] OTHER -> tok

LowerText(t) == [i \in 1..Len(t) |-> Lower(t[i])]

\* "k in text" for a k that is one token
Contains(text, k) == \E i \in 1..Len(text) : text[i] = k

\* The substrings that send ping to the TCP fallback.
Triggers ==
  {"not found", "operation not permitted", "permission denied", "cap_net_raw", "icmp"}

\* What _icmp_ping reports when no ping binary is on the path.
NotFoundText == <<"ping binary ", "not found", " inside the container">>

\* icmp_reason of Tools.ping
IcmpReason(out, err) ==
  LowerText(Or(Strip(err), Or(Strip(out), <<"ICMP", " ping failed">>)))

\* A fallback taken on every failure, whatever its reason.
ShouldFallbackAlways(out, err) == TRUE

\* The condition of the fallback: any(k in icmp_reason for k in [...])
ShouldFallback(out, err) == \E k \in Triggers : Contains(IcmpReason(out, err), k)

\* The last return of ping giving the lower-cased reason it searched.
FailureTextLowered(out, err) == LowerText(Or(Strip(err), Or(Strip(out), <<"Ping failed">>)))

\* The last return of Tools.ping
FailureText(out, err) == Or(Strip(err), Or(Strip(out), <<"Ping failed">>))

\* ---------------------------------------------------- the summary patterns

\* _re_packets_unix on one token: the groups tx, rx, loss of a match.
MatchPacketsUnix(tok) ==
  CASE tok = "4 packets transmitted, 4 received, 0% packet loss, time 3004ms"
         -> Some([tx |-> "4", rx |-> "4", loss |-> "0"])
    [] tok = "4 packets transmitted, 3 received, 25% packet loss, time 3010ms"
         -> Some([tx |-> "4", rx |-> "3", loss |-> "25"])
    [] tok = "4 packets transmitted, 0 received, 100% packet loss, time 3051ms"
         -> Some([tx |-> "4", rx |-> "0", loss |-> "100"])
    [] OTHER -> None

\* _re_rtt_unix on one token: the groups min, avg, max, mdev of a match.
MatchRttUnix(tok) ==
  CASE tok = "rtt min/avg/max/mdev = 10.0/12.5/15.0/1.2 ms"
         -> Some([min |-> "10.0", avg |-> "12.5", max |-> "15.0", mdev |-> "1.2"])
    [] tok = "round-trip min/avg/max/stddev = 0.9/1.1/1.4/0.2 ms"
         -> Some([min |-> "0.9", avg |-> "1.1", max |-> "1.4", mdev |-> "0.2"])
    [] OTHER -> None

\* _re_packets_win on one token: the groups tx, rx, loss of a match.
MatchPacketsWin(tok) ==
  CASE tok = "Packets: Sent = 4, Received = 4, Lost = 0 (0% loss)"
         -> Some([tx |-> "4", rx |-> "4", loss |-> "0"])
    [] OTHER -> None

\* _re_rtt_win on one token: the groups min, max, avg of a match.
MatchRttWin(tok) ==
  CASE tok = "Minimum = 10ms, Maximum = 15ms, Average = 12ms"
         -> Some([min |-> "10", max |-> "15", avg |-> "12"])
    [] OTHER -> None

\* pattern.search(text): the leftmost match, None when there is none.
\* matches[i] is the match of the pattern on the i-th token of the text.
Search(matches) ==
  IF \E i \in 1..Len(matches) : matches[i] # None
    THEN LET k == CHOOSE i \in 1..Len(matches) :
                    /\ matches[i] # None
                    /\ \A j \in 1..(i - 1) : matches[j] = None
         IN matches[k]
    ELSE None

IcmpColumnsUnix ==
  <<"Type", "Host", "Sent", "Received", "Loss", "Min (ms)", "Avg (ms)", "Max (ms)",
    "Mdev/Stddev (ms)">>

IcmpColumnsWin ==
  <<"Type", "Host", "Sent", "Received", "Loss", "Min (ms)", "Avg (ms)", "Max (ms)">>

\* The POSIX table of _format_icmp_table.
IcmpTableUnix(host, pkt, rtt) ==
  [kind |-> "icmp", columns |-> IcmpColumnsUnix,
   row |-> [Type |-> "ICMP", Host |-> host, Sent |-> pkt.tx, Received |-> pkt.rx,
            Loss |-> pkt.loss \o "%",
            Min |-> IF rtt = None THEN "-" ELSE rtt[1].min,
            Avg |-> IF rtt = None THEN "-" ELSE rtt[1].avg,
            Max |-> IF rtt = None THEN "-" ELSE rtt[1].max,
            Mdev |-> IF rtt = None THEN "-" ELSE rtt[1].mdev]]

\* The Windows table of _format_icmp_table.
IcmpTableWin(host, pkt, rtt) ==
  [kind |-> "icmp", columns |-> IcmpColumnsWin,
   row |-> [Type |-> "ICMP", Host |-> host, Sent |-> pkt.tx, Received |-> pkt.rx,
            Loss |-> pkt.loss \o "%",
            Min |-> IF rtt = None THEN "-" ELSE rtt[1].min,
            Avg |-> IF rtt = None THEN "-" ELSE rtt[1].avg,
            Max |-> IF rtt = None THEN "-" ELSE rtt[1].max]]

\* _format_icmp_table trying the Windows patterns before the POSIX ones.
FormatIcmpTableWinFirst(host, stdout, stderr) ==
  LET text == stdout \o <<"\n">> \o stderr
      u_pkt == Search([i \in 1..Len(text) |-> MatchPacketsUnix(text[i])])
      u_rtt == Search([i \in 1..Len(text) |-> MatchRttUnix(text[i])])
      w_pkt == Search([i \in 1..Len(text) |-> MatchPacketsWin(text[i])])
      w_rtt == Search([i \in 1..Len(text) |-> MatchRttWin(text[i])])
  IN IF w_pkt # None THEN Some(IcmpTableWin(host, w_pkt[1], w_rtt))
     ELSE IF u_pkt # None THEN Some(IcmpTableUnix(host, u_pkt[1], u_rtt))
     ELSE None

\* Tools._format_icmp_table: Some(table), or None when neither packet
\* pattern matches.
FormatIcmpTable(host, stdout, stderr) ==
  LET text == stdout \o <<"\n">> \o stderr
      u_pkt == Search([i \in 1..Len(text) |-> MatchPacketsUnix(text[i])])
      u_rtt == Search([i \in 1..Len(text) |-> MatchRttUnix(text[i])])
      w_pkt == Search([i \in 1..Len(text) |-> MatchPacketsWin(text[i])])
      w_rtt == Search([i \in 1..Len(text) |-> MatchRttWin(text[i])])
  IN IF u_pkt # None THEN Some(IcmpTableUnix(host, u_pkt[1], u_rtt))
     ELSE IF w_pkt # None THEN Some(IcmpTableWin(host, w_pkt[1], w_rtt))
     ELSE None

\* The table ping returns when the utility succeeded and no pattern matched.
UnparsedTable(host) ==
  [kind |-> "icmp", columns |-> <<"Type", "Host", "Note">>,
   row |-> [Type |-> "ICMP", Host |-> host, Note |-> "Success (unparsed output)"]]

\* A report that is a plain string.
TextReport(text) == [kind |-> "text", text |-> text]

\* What ping returns once the utility has exited with success.
SuccessReport(host, stdout, stderr) ==
  IF FormatIcmpTable(host, stdout, stderr) # None
    THEN FormatIcmpTable(host, stdout, stderr)[1]
    ELSE UnparsedTable(host)

\* ------------------------------------------------------- the TCP report

RECURSIVE SeqSum(_)
SeqSum(s) == IF s = << >> THEN 0 ELSE Head(s) + SeqSum(Tail(s))

SeqMin(s) == CHOOSE v \in {s[i] : i \in 1..Len(s)} : \A i \in 1..Len(s) : v <= s[i]

SeqMax(s) == CHOOSE v \in {s[i] : i \in 1..Len(s)} : \A i \in 1..Len(s) : v >= s[i]

\* A latency is a whole number of tenths of a millisecond; f"{v:.1f}" of it.
FormatMs(v) == ToString(v \div 10) \o "." \o ToString(v % 10)

\* f"{nan:.1f}"
NanText == "nan"

\* The mean of the samples to the nearest tenth.
Average(s) == (2 * SeqSum(s) + Len(s)) \div (2 * Len(s))

TcpColumns ==
  <<"Type", "Host", "Port", "Attempts", "Success", "Fail", "Min (ms)", "Avg (ms)",
    "Max (ms)">>

\* The summary row of _format_tcp_table.
TcpSummaryRow(host, port, samples_ms, attempts) ==
  [Type |-> "TCP", Host |-> host, Port |-> ToString(port),
   Attempts |-> ToString(attempts),
   Success |-> ToString(Len(samples_ms)),
   Fail |-> ToString(attempts - Len(samples_ms)),
   Min |-> IF samples_ms # << >> THEN FormatMs(SeqMin(samples_ms)) ELSE NanText,
   Avg |-> IF samples_ms # << >> THEN FormatMs(Average(samples_ms)) ELSE NanText,
   Max |-> IF samples_ms # << >> THEN FormatMs(SeqMax(samples_ms)) ELSE NanText]

\* The "| Attempt | Latency (ms) |" table of _format_tcp_table: None when
\* one attempt is configured, else a row per sample, numbered from 1, or the
\* single row "| 1 | failed |" when there is no sample.
TcpBreakdown(samples_ms, attempts) ==
  IF attempts > 1
    THEN Some(IF samples_ms # << >>
                THEN [i \in 1..Len(samples_ms) |->
                        [Attempt |-> ToString(i), Latency |-> FormatMs(samples_ms[i])]]
                ELSE <<[Attempt |-> "1", Latency |-> "failed"]>>)
    ELSE None

\* The error table without the slice to three rows.
TcpErrorRowsUncut(errors) == IF errors # << >> THEN Some(errors) ELSE None

\* The "| Errors |" table of _format_tcp_table: errors[:3], None when no
\* error was recorded.
TcpErrorRows(errors) ==
  IF errors # << >>
    THEN Some(SubSeq(errors, 1, IF Len(errors) < MaxErrorRows THEN Len(errors)
                                                             ELSE MaxErrorRows))
    ELSE None

\* Tools._format_tcp_table
FormatTcpTable(host, port, samples_ms, attempts, errors) ==
  [kind |-> "tcp", columns |-> TcpColumns,
   row |-> TcpSummaryRow(host, port, samples_ms, attempts),
   breakdown |-> TcpBreakdown(samples_ms, attempts),
   errors |-> TcpErrorRows(errors)]

\* The port of the fallback: port or self.valves.tcp_default_port
FallbackPort(port) == IF port = None \/ port = Some(0) THEN tcp_default_port ELSE port[1]

\* ------------------------------------------------------- the environment

\* What subprocess.run can return: the exit code and the two streams.
ProcSuccesses ==
  {[rc |-> 0,
    stdout |-> <<"PING a (10.0.0.1) 56(84) bytes of data.", "\n",
                 "4 packets transmitted, 4 received, 0% packet loss, time 3004ms", "\n",
                 "rtt min/avg/max/mdev = 10.0/12.5/15.0/1.2 ms", "\n">>,
    stderr |-> << >>],
   [rc |-> 0,
    stdout |-> <<"4 packets transmitted, 3 received, 25% packet loss, time 3010ms", "\n",
                 "round-trip min/avg/max = 10.0/12.5/15.0 ms", "\n">>,
    stderr |-> << >>],
   [rc |-> 0,
    stdout |-> <<"4 packets transmitted, 4 packets received, 0.0% packet loss", "\n",
                 "round-trip min/avg/max/stddev = 0.9/1.1/1.4/0.2 ms", "\n">>,
    stderr |-> << >>],
   [rc |-> 0,
    stdout |-> <<"Packets: Sent = 4, Received = 4, Lost = 0 (0% loss)", "\n",
                 "Minimum = 10ms, Maximum = 15ms, Average = 12ms", "\n">>,
    stderr |-> << >>],
   [rc |-> 0,
    stdout |-> <<"Packets: Sent = 4, Received = 4, Lost = 0 (0% loss)", "\n">>,
    stderr |-> << >>],
   [rc |-> 0,
    stdout |-> <<"Packets: Sent = 4, Received = 4, Lost = 0 (0% loss)", "\n",
                 "Minimum = 10ms, Maximum = 15ms, Average = 12ms", "\n">>,
    stderr |-> <<"4 packets transmitted, 4 received, 0% packet loss, time 3004ms", "\n">>],
   [rc |-> 0,
    stdout |-> <<"From 10.0.0.1 ", "icmp", "_seq=1 Destination Host Unreachable", "\n">>,
    stderr |-> <<"ping: socket: ", "Operation not permitted", "\n">>],
   [rc |-> 0, stdout |-> << >>, stderr |-> << >>]}

ProcFailures ==
  {[rc |-> 2, stdout |-> << >>,
    stderr |-> <<"ping: socket: ", "Operation not permitted", "\n">>],
   [rc |-> 2, stdout |-> << >>,
    stderr |-> <<"ping: ", "CAP_NET_RAW", " capability required", "\n">>],
   [rc |-> 2, stdout |-> << >>, stderr |-> <<" ", "Unknown host", "\n">>],
   [rc |-> 1,
    stdout |-> <<"PING a (10.0.0.1) 56(84) bytes of data.", "\n",
                 "From 10.0.0.1 ", "icmp", "_seq=1 Destination Host Unreachable", "\n",
                 "4 packets transmitted, 0 received, 100% packet loss, time 3051ms", "\n">>,
    stderr |-> << >>],
   [rc |-> 1,
    stdout |-> <<"PING a (10.0.0.1) 56(84) bytes of data.", "\n",
                 "From 10.0.0.1 ", "icmp", "_seq=1 Destination Host Unreachable", "\n">>,
    stderr |-> <<"Warning: source address might be selected on device other than eth0",
                 "\n">>],
   [rc |-> 1, stdout |-> <<"\n", "Request timed out.", "\n">>, stderr |-> <<" ", "\n">>],
   [rc |-> 1, stdout |-> << >>, stderr |-> << >>]}

ProcOutcomes == ProcSuccesses \cup ProcFailures

\* What subprocess.run can raise: the class of the exception and its str().
RunExceptions ==
  {[type |-> "PermissionError",
    text |-> <<"[Errno 13] ", "Permission denied", ": '/usr/bin/ping'">>],
   [type |-> "OSError", text |-> <<"[Errno 8] Exec format error: '/usr/bin/ping'">>],
   [type |-> "UnicodeDecodeError",
    text |-> <<"'utf-8' codec can't decode byte 0xff in position 0: invalid start byte">>]}

\* The latencies a successful connect can measure, in tenths of a millisecond.
Latencies == {12, 305}

\* What socket.create_connection can raise on a port it accepts.
ConnectExceptions ==
  {[type |-> "TimeoutError", text |-> "timed out"],
   [type |-> "ConnectionRefusedError", text |-> "[Errno 111] Connection refused"]}

\* What it raises on a port the resolver rejects: a negative port, and on
\* some platforms a port above 65535.
PortExceptions ==
  {[type |-> "gaierror", text |-> "[Errno -8] Servname not supported for ai_socktype"],
   [type |-> "OverflowError", text |-> "bind(): port must be 0-65535."]}

NoException == [type |-> "", text |-> ""]

\* The outcomes of one socket.create_connection((host, port)): a latency, or
\* an exception. A negative port never resolves and port 0 never accepts; a
\* port above 65535 is rejected or taken modulo 65536, as the platform's
\* resolver decides.
ConnectOutcomes(p) ==
  (IF p < 0 \/ p > 65535
     THEN {[ok |-> FALSE, ms |-> 0, exc |-> e] : e \in PortExceptions}
     ELSE {})
  \cup (IF p >= 0
          THEN {[ok |-> FALSE, ms |-> 0, exc |-> e] : e \in ConnectExceptions}
          ELSE {})
  \cup (IF p > 0
          THEN {[ok |-> TRUE, ms |-> v, exc |-> NoException] : v \in Latencies}
          ELSE {})

\* The exception classes "except Exception" catches: every class the
\* environment raises is one.
ExceptionClasses ==
  {"PermissionError", "OSError", "UnicodeDecodeError", "TimeoutError",
   "ConnectionRefusedError", "OverflowError", "gaierror", "ValueError"}

\* "except Exception as e" of _icmp_ping
IcmpCatches(e) == e.type \in ExceptionClasses

\* "except OSError as e" in its place: the socket errors alone.
TcpCatchesOSError(e) == e.type \in {"OSError", "TimeoutError", "ConnectionRefusedError", "gaierror"}

\* "except Exception as e" of _tcp_ping
TcpCatches(e) == e.type \in ExceptionClasses

\* ------------------------------------------------------------- the state

VARIABLES
  pc,            \* where the call of ping is: "call", "split", "icmp",
                 \* "icmp_done", "tcp", "done"
  raw,           \* the target argument of ping
  tcp_attempts,  \* self.valves.tcp_attempts
  target,        \* the sanitised target (None before, and when rejected)
  host,          \* host of _split_host_port
  port,          \* port of _split_host_port: None or Some(integer)
  ok,            \* the three results of _icmp_ping
  out,
  err,
  p,             \* the port of the TCP fallback
  samples_ms,    \* samples_ms of _tcp_ping
  errors,        \* errors of _tcp_ping
  attempts_log,  \* the outcome of each connection attempt so far, in order
  events,        \* the subprocess runs, connects and sleeps so far, in order
  result,        \* what ping returned: None until it returns
  raised         \* the exception that left ping: None when there is none

\* The state of one call of use_flight of src/flight-info.py.
VARIABLES
  fpc,            \* where the call is: "idle" (no call), "start", "query",
                  \* "build", "done"
  flight_number,  \* the argument of use_flight
  cands,          \* the candidate callsigns, in the order of the list
  prov,           \* index in _PROVIDERS of the provider being queried
  ci,             \* index in cands of the next candidate to query
  best,           \* best of use_flight: None or Some(result of a query)
  queries,        \* the queries sent so far, in order
  fresult,        \* what use_flight returned: None until it returns
  fraised         \* the exception that left use_flight: None when none

\* The variables of the ping call and those of the flight call.
pvars ==
  <<pc, raw, tcp_attempts, target, host, port, ok, out, err, p, samples_ms, errors,
    attempts_log, events, result, raised>>

fvars == <<fpc, flight_number, cands, prov, ci, best, queries, fresult, fraised>>

vars == <<pvars, fvars>>

\* No call of use_flight is under way.
FlightIdle ==
  /\ fpc = "idle"
  /\ flight_number = << >>
  /\ cands = << >>
  /\ prov = 0
  /\ ci = 0
  /\ best = None
  /\ queries = << >>
  /\ fresult = None
  /\ fraised = None

Event(op, h, arg) == [op |-> op, host |-> h, arg |-> arg]

InitCall ==
  /\ pc = "call"
  /\ target = None
  /\ host = << >>
  /\ port = None
  /\ ok = FALSE
  /\ out = << >>
  /\ err = << >>
  /\ p = 0
  /\ samples_ms = << >>
  /\ errors = << >>
  /\ attempts_log = << >>
  /\ events = << >>
  /\ result = None
  /\ raised = None
  /\ FlightIdle

\* A call of ping on one of the sample targets, with any configured number
\* of TCP attempts.
Init ==
  /\ raw \in SampleTargets
  /\ tcp_attempts \in 1..MaxAttempts
  /\ InitCall

\* A call of ping on any short target, with one TCP attempt configured.
InitTargets ==
  /\ raw \in ShortTargets \cup SampleTargets
  /\ tcp_attempts = 1
  /\ InitCall

\* ping, lines 235-237: sanitise the target, return "Invalid target" when
\* it is rejected.
SanitizeStep ==
  /\ pc = "call"
  /\ target' = Sanitize(raw)
  /\ IF Sanitize(raw) = None
       THEN /\ result' = Some(TextReport(<<"Invalid target">>))
            /\ pc' = "done"
       ELSE /\ result' = result
            /\ pc' = "split"
  /\ UNCHANGED <<fvars, raw, tcp_attempts, host, port, ok, out, err, p, samples_ms, errors,
                 attempts_log, events, raised>>

\* ping, lines 239-241: split the target into host and port.
SplitStep ==
  /\ pc = "split"
  /\ host' = SplitHostPort(target[1]).host
  /\ port' = SplitHostPort(target[1]).port
  /\ pc' = "icmp"
  /\ UNCHANGED <<fvars, raw, tcp_attempts, target, ok, out, err, p, samples_ms, errors,
                 attempts_log, events, result, raised>>

\* _icmp_ping when _find_ping finds no binary: no subprocess is run.
IcmpNoBinary ==
  /\ pc = "icmp"
  /\ ok' = FALSE
  /\ out' = << >>
  /\ err' = NotFoundText
  /\ pc' = "icmp_done"
  /\ UNCHANGED <<fvars, raw, tcp_attempts, target, host, port, p, samples_ms, errors,
                 attempts_log, events, result, raised>>

\* _icmp_ping when subprocess.run returns.
IcmpRunReturns ==
  /\ pc = "icmp"
  /\ \E proc \in ProcOutcomes :
       /\ ok' = (proc.rc = 0)
       /\ out' = proc.stdout
       /\ err' = proc.stderr
  /\ events' = Append(events, Event("run", host, packet_count))
  /\ pc' = "icmp_done"
  /\ UNCHANGED <<fvars, raw, tcp_attempts, target, host, port, p, samples_ms, errors,
                 attempts_log, result, raised>>

\* _icmp_ping when subprocess.run raises: the handler turns the exception
\* into the error text, an exception it does not catch leaves ping.
IcmpRunRaises ==
  /\ pc = "icmp"
  /\ \E e \in RunExceptions :
       IF IcmpCatches(e)
         THEN /\ ok' = FALSE
              /\ out' = << >>
              /\ err' = e.text
              /\ pc' = "icmp_done"
              /\ raised' = raised
         ELSE /\ raised' = Some(e.type)
              /\ pc' = "done"
              /\ UNCHANGED <<ok, out, err>>
  /\ events' = Append(events, Event("run", host, packet_count))
  /\ UNCHANGED <<fvars, raw, tcp_attempts, target, host, port, p, samples_ms, errors,
                 attempts_log, result>>

\* ping, lines 245-252: the utility succeeded.
IcmpSuccess ==
  /\ pc = "icmp_done"
  /\ ok
  /\ result' = Some(SuccessReport(host, out, err))
  /\ pc' = "done"
  /\ UNCHANGED <<fvars, raw, tcp_attempts, target, host, port, ok, out, err, p, samples_ms,
                 errors, attempts_log, events, raised>>

\* ping, lines 255-268 and 276: the utility failed; start the TCP fallback
\* or return the failure text.
IcmpFailure ==
  /\ pc = "icmp_done"
  /\ ~ok
  /\ IF ShouldFallback(out, err)
       THEN /\ p' = FallbackPort(port)
            /\ pc' = "tcp"
            /\ result' = result
       ELSE /\ result' = Some(TextReport(FailureText(out, err)))
            /\ pc' = "done"
            /\ p' = p
  /\ UNCHANGED <<fvars, raw, tcp_attempts, target, host, port, ok, out, err, samples_ms,
                 errors, attempts_log, events, raised>>

\* A loop that stops at the first connect that succeeds.
LoopUntilSuccess == Len(attempts_log) < tcp_attempts /\ samples_ms = << >>

\* "for _ in range(attempts)" of _tcp_ping: another turn is due.
LoopContinues == Len(attempts_log) < tcp_attempts

\* One turn of the loop of _tcp_ping: a connect; on success the sample is
\* kept and the loop sleeps 100 ms, on an exception its text is kept.
TcpAttempt ==
  /\ pc = "tcp"
  /\ LoopContinues
  /\ \E o \in ConnectOutcomes(p) :
       /\ attempts_log' = Append(attempts_log, o)
       /\ IF o.ok
            THEN /\ samples_ms' = Append(samples_ms, o.ms)
                 /\ events' = events \o <<Event("connect", host, p),
                                           Event("sleep", << >>, 100)>>
                 /\ UNCHANGED <<errors, raised, pc>>
            ELSE /\ events' = Append(events, Event("connect", host, p))
                 /\ IF TcpCatches(o.exc)
                      THEN /\ errors' = Append(errors, o.exc.text)
                           /\ UNCHANGED <<samples_ms, raised, pc>>
                      ELSE /\ raised' = Some(o.exc.type)
                           /\ pc' = "done"
                           /\ UNCHANGED <<samples_ms, errors>>
  /\ UNCHANGED <<fvars, raw, tcp_attempts, target, host, port, ok, out, err, p, result>>

\* ping, lines 272-274: the loop is over; return the TCP table.
TcpReport ==
  /\ pc = "tcp"
  /\ ~LoopContinues
  /\ result' = Some(FormatTcpTable(host, p, samples_ms, tcp_attempts, errors))
  /\ pc' = "done"
  /\ UNCHANGED <<fvars, raw, tcp_attempts, target, host, port, ok, out, err, p, samples_ms,
                 errors, attempts_log, events, raised>>

Next ==
  \/ SanitizeStep
  \/ SplitStep
  \/ IcmpNoBinary
  \/ IcmpRunReturns
  \/ IcmpRunRaises
  \/ IcmpSuccess
  \/ IcmpFailure
  \/ TcpAttempt
  \/ TcpReport

Spec == Init /\ [][Next]_vars

\* The same call on every short target.
SpecTargets == InitTargets /\ [][Next]_vars

\* =================================================== the flight tool

LowerAlpha ==
  <<"a","b","c","d","e","f","g","h","i","j","k","l","m",
    "n","o","p","q","r","s","t","u","v","w","x","y","z">>

UpperAlpha ==
  <<"A","B","C","D","E","F","G","H","I","J","K","L","M",
    "N","O","P","Q","R","S","T","U","V","W","X","Y","Z">>

IsUpper(c) == \E i \in 1..Len(UpperAlpha) : UpperAlpha[i] = c

\* str.upper() on one character
Upper(c) ==
  IF \E i \in 1..Len(LowerAlpha) : LowerAlpha[i] = c
    THEN UpperAlpha[CHOOSE i \in 1..Len(LowerAlpha) : LowerAlpha[i] = c]
    ELSE c

\* re.sub(r"\s+", "", s)
RECURSIVE DropSpaces(_)
DropSpaces(s) ==
  IF s = << >> THEN << >>
  ELSE IF IsSpace(Head(s)) THEN DropSpaces(Tail(s))
  ELSE <<Head(s)>> \o DropSpaces(Tail(s))

\* _clean
Clean(s) == LET t == DropSpaces(s) IN [i \in 1..Len(t) |-> Upper(t[i])]

\* _IATA_ICAO: Some(ICAO prefix) of an IATA prefix, None when it has none.
IataIcao(c) ==
  CASE c = <<"A","A">> -> Some(<<"A","A","L">>)
    [] c = <<"U","A">> -> Some(<<"U","A","L">>)
    [] c = <<"D","L">> -> Some(<<"D","A","L">>)
    [] c = <<"W","N">> -> Some(<<"S","W","A">>)
    [] c = <<"A","S">> -> Some(<<"A","S","A">>)
    [] c = <<"B","6">> -> Some(<<"J","B","U">>)
    [] c = <<"F","9">> -> Some(<<"F","F","T">>)
    [] c = <<"N","K">> -> Some(<<"N","K","S">>)
    [] c = <<"H","A">> -> Some(<<"H","A","L">>)
    [] c = <<"B","A">> -> Some(<<"B","A","W">>)
    [] c = <<"A","F">> -> Some(<<"A","F","R">>)
    [] c = <<"K","L">> -> Some(<<"K","L","M">>)
    [] c = <<"L","H">> -> Some(<<"D","L","H">>)
    [] c = <<"L","X">> -> Some(<<"S","W","R">>)
    [] c = <<"O","S">> -> Some(<<"A","U","A">>)
    [] c = <<"I","B">> -> Some(<<"I","B","E">>)
    [] c = <<"A","Z">> -> Some(<<"I","T","A">>)
    [] c = <<"S","K">> -> Some(<<"S","A","S">>)
    [] c = <<"D","Y">> -> Some(<<"N","A","X">>)
    [] c = <<"Q","F">> -> Some(<<"Q","F","A">>)
    [] c = <<"N","Z">> -> Some(<<"A","N","Z">>)
    [] c = <<"V","A">> -> Some(<<"V","O","Z">>)
    [] c = <<"A","C">> -> Some(<<"A","C","A">>)
    [] c = <<"W","S">> -> Some(<<"W","J","A">>)
    [] c = <<"T","K">> -> Some(<<"T","H","Y">>)
    [] c = <<"Q","R">> -> Some(<<"Q","T","R">>)
    [] c = <<"E","K">> -> Some(<<"U","A","E">>)
    [] c = <<"E","Y">> -> Some(<<"E","T","D">>)
    [] c = <<"S","V">> -> Some(<<"S","V","A">>)
    [] c = <<"A","I">> -> Some(<<"A","I","C">>)
    [] c = <<"J","L">> -> Some(<<"J","A","L">>)
    [] c = <<"N","H">> -> Some(<<"A","N","A">>)
    [] c = <<"K","E">> -> Some(<<"K","A","L">>)
    [] c = <<"O","Z">> -> Some(<<"A","A","R">>)
    [] c = <<"C","X">> -> Some(<<"C","P","A">>)
    [] c = <<"S","Q">> -> Some(<<"S","I","A">>)
    [] c = <<"M","H">> -> Some(<<"M","A","S">>)
    [] c = <<"B","R">> -> Some(<<"E","V","A">>)
    [] c = <<"T","G">> -> Some(<<"T","H","A">>)
    [] c = <<"C","A">> -> Some(<<"C","C","A">>)
    [] c = <<"M","U">> -> Some(<<"C","E","S">>)
    [] c = <<"C","Z">> -> Some(<<"C","S","N">>)
    [] c = <<"F","M">> -> Some(<<"C","S","H">>)
    [] c = <<"V","S">> -> Some(<<"V","I","R">>)
    [] c = <<"U","2">> -> Some(<<"E","Z","Y">>)
    [] c = <<"F","R">> -> Some(<<"R","Y","R">>)
    [] c = <<"W","6">> -> Some(<<"W","Z","Z">>)
    [] OTHER -> None

AllDigits(s) == \A i \in 1..Len(s) : IsDigit(s[i])

\* The second group of ^([A-Z0-9]{2})(\d{1,4}[A-Z]?)$: one to four digits
\* and at most one letter after them.
IsFlightDigits(s) ==
  \/ Len(s) \in 1..4 /\ AllDigits(s)
  \/ /\ Len(s) \in 2..5
     /\ AllDigits(SubSeq(s, 1, Len(s) - 1))
     /\ IsUpper(s[Len(s)])

\* The match of _candidates: the pattern holds on the cleaned text.
MatchesFlightNumber(s) ==
  /\ Len(s) >= 3
  /\ \A i \in 1..2 : IsUpper(s[i]) \/ IsDigit(s[i])
  /\ IsFlightDigits(SubSeq(s, 3, Len(s)))

\* _candidates, as the set it builds; list(out) puts it in an order the
\* code does not choose.
Candidates(user) ==
  LET s == Clean(user)
  IN IF MatchesFlightNumber(s) /\ IataIcao(SubSeq(s, 1, 2)) # None
       THEN {s, IataIcao(SubSeq(s, 1, 2))[1] \o SubSeq(s, 3, Len(s))}
       ELSE {s}

\* The orders of a set of one or two elements as a list.
Orders(S) == {q \in SeqsUpTo(S, Cardinality(S)) :
                Len(q) = Cardinality(S) /\ {q[i] : i \in 1..Len(q)} = S}

\* _PROVIDERS
Providers ==
  <<"https://api.airplanes.live/v2", "http://api.airplanes.live/v2",
    "https://api.adsb.one/v2", "https://api.adsb.lol/v2">>

\* 9e9, the age of an aircraft without one. It is beyond the integers of the
\* model checker: the largest of them stands for it, above every age below.
NineE9 == 2147483647

\* dict.get(key, default) on a record whose values are None or Some(v).
DictGet(d, key, default) == IF key \in DOMAIN d THEN d[key] ELSE default

\* "v or 0" on None or Some(number)
OrZero(v) == IF v = None \/ v = Some(0) THEN 0 ELSE v[1]

\* "a or b" on None or Some(number)
OrElse(a, b) == IF a = None \/ a = Some(0) THEN b ELSE a

\* The flight numbers asked for.
FlightNumbers ==
  {<<>>,
   <<" "," ">>,
   <<"D","L","2","2","0","6">>,
   <<"d","l"," ","2","2","0","6">>,
   <<"D","A","L","2","2","0","6">>,
   <<"Z","Z","1">>,
   <<"A","A","1","A">>,
   <<"U","A","1","2","3","4","5">>}

\* What a provider reports of the speed and the altitudes of an aircraft: a
\* key it leaves out is None.
Motions ==
  {[gs |-> None, alt_geom |-> None, alt_baro |-> None],
   [gs |-> Some(0), alt_geom |-> Some(0), alt_baro |-> Some(150)],
   [gs |-> Some(39), alt_geom |-> Some(2499), alt_baro |-> None],
   [gs |-> Some(39), alt_geom |-> Some(2500), alt_baro |-> None],
   [gs |-> Some(40), alt_geom |-> Some(1000), alt_baro |-> None],
   [gs |-> Some(200), alt_geom |-> None, alt_baro |-> None],
   [gs |-> Some(450), alt_geom |-> None, alt_baro |-> Some(35000)]}

\* The ages a provider reports: none, or seconds since the last message.
SeenAges == {None, Some(1), Some(7)}

\* The objects of the "ac" list of an answer.
Aircraft ==
  {[seen |-> s, gs |-> m.gs, alt_geom |-> m.alt_geom, alt_baro |-> m.alt_baro] :
     s \in SeenAges, m \in Motions}

\* The aircraft that come two to an answer.
Airborne == {a \in Aircraft : a.gs # None /\ a.gs[1] >= 40}

\* What _fetch_json gives for one query: an exception, or the "ac" list of
\* the answer (empty when the key is missing or the list is empty).
Answers ==
  {[raises |-> TRUE, ac |-> << >>], [raises |-> FALSE, ac |-> << >>]}
  \cup {[raises |-> FALSE, ac |-> <<a>>] : a \in Aircraft}
  \cup {[raises |-> FALSE, ac |-> <<a, b>>] : a \in Airborne, b \in Airborne}

\* The key of min() in _query_callsign: a.get("seen", 9e9)
SeenKey(a) == IF a.seen = None THEN NineE9 ELSE a.seen[1]

\* min(ac, key=...): the first aircraft of the least key.
Freshest(ac) ==
  ac[CHOOSE i \in 1..Len(ac) :
       /\ \A j \in 1..Len(ac) : SeenKey(ac[i]) <= SeenKey(ac[j])
       /\ \A j \in 1..(i - 1) : SeenKey(ac[j]) > SeenKey(ac[i])]

\* _query_callsign: None, or Some(the dict it returns). The provider names
\* the aircraft by the callsign asked for; the fields that use_flight copies
\* and never reads (hex, position, heading, rate, squawk, category) are left
\* out.
QueryCallsign(base, callsign, answer) ==
  IF answer.raises \/ answer.ac = << >> THEN None
  ELSE LET a == Freshest(answer.ac)
       IN Some([source |-> base,
                flight |-> Clean(callsign),
                altitude_ft |-> OrElse(a.alt_geom, a.alt_baro),
                speed_kt |-> a.gs,
                seen_s |-> a.seen])

\* The two sides of the comparison of use_flight:
\* res.get("seen_s", 9e9) < best.get("seen_s", 9e9)
SeenOf(r) == DictGet(r, "seen_s", Some(NineE9))

\* The comparison raises TypeError when a side is None.
CompareRaises(res, b) == SeenOf(res) = None \/ SeenOf(b) = None

\* "best is None or res is fresher than best"
Replaces(res, b) == b = None \/ SeenOf(res)[1] < SeenOf(b[1])[1]

\* The on_ground entry of the dict use_flight returns.
OnGround(b) ==
  /\ OrZero(DictGet(b, "gs", None)) < 40
  /\ OrZero(DictGet(b, "altitude_ft", None)) < 2500

NoMatchError == "No live ADS-B match"

\* The dict use_flight returns for a match.
FlightReport(b) ==
  [ok |-> TRUE, source |-> b.source, callsign |-> b.flight,
   stale_seconds |-> DictGet(b, "seen_s", None),
   altitude_ft |-> b.altitude_ft, speed_kt |-> b.speed_kt,
   on_ground |-> OnGround(b)]

FlightError(text) == [ok |-> FALSE, error |-> text]

\* ------------------------------------------- one call of use_flight

\* No call of ping is under way.
PingIdle ==
  /\ pc = "idle"
  /\ raw = << >>
  /\ tcp_attempts = tcp_attempts_default
  /\ target = None
  /\ host = << >>
  /\ port = None
  /\ ok = FALSE
  /\ out = << >>
  /\ err = << >>
  /\ p = 0
  /\ samples_ms = << >>
  /\ errors = << >>
  /\ attempts_log = << >>
  /\ events = << >>
  /\ result = None
  /\ raised = None

\* A call of use_flight on one of the flight numbers.
InitFlight ==
  /\ PingIdle
  /\ fpc = "call"
  /\ flight_number \in FlightNumbers
  /\ cands = << >>
  /\ prov = 0
  /\ ci = 0
  /\ best = None
  /\ queries = << >>
  /\ fresult = None
  /\ fraised = None

BlankError == "Please provide a flight number"

\* use_flight, lines 153-157: a blank flight number is answered at once.
FlightBlank ==
  /\ fpc = "call"
  /\ Strip(flight_number) = << >>
  /\ fresult' = Some(FlightError(BlankError))
  /\ fpc' = "done"
  /\ UNCHANGED <<pvars, flight_number, cands, prov, ci, best, queries, fraised>>

\* use_flight, lines 160-163: the candidates in the order list(set) gives
\* them, and the loops start at the first provider and candidate.
FlightCandidates ==
  /\ fpc = "call"
  /\ Strip(flight_number) # << >>
  /\ cands' \in Orders(Candidates(flight_number))
  /\ prov' = 1
  /\ ci' = 1
  /\ fpc' = "query"
  /\ UNCHANGED <<pvars, flight_number, best, queries, fresult, fraised>>

\* The record of one query: the provider, the callsign, and what came back.
Query(res) == [provider |-> prov, callsign |-> cands[ci], res |-> res]

\* Lines 164 and 171-172 after one query left the best match b: the next
\* candidate, or at the end of the candidates the break on a match, the
\* next provider, or the end of the providers.
Advance(b) ==
  IF ci < Len(cands)
    THEN /\ ci' = ci + 1
         /\ UNCHANGED <<fpc, prov>>
    ELSE IF b # None \/ prov = Len(Providers)
      THEN /\ fpc' = "build"
           /\ UNCHANGED <<prov, ci>>
      ELSE /\ prov' = prov + 1
           /\ ci' = 1
           /\ UNCHANGED fpc

\* Lines 165-166: the query gives nothing (the fetch raised, or no aircraft).
QueryNoMatch ==
  /\ fpc = "query"
  /\ \E answer \in Answers :
       LET res == QueryCallsign(Providers[prov], cands[ci], answer)
       IN /\ res = None
          /\ queries' = Append(queries, Query(res))
  /\ Advance(best)
  /\ UNCHANGED <<pvars, flight_number, cands, best, fresult, fraised>>

\* Lines 165-170: the query gives a match, and the comparison with the best
\* match so far, when there is one, gives an answer.
QueryMatch ==
  /\ fpc = "query"
  /\ \E answer \in Answers :
       LET res == QueryCallsign(Providers[prov], cands[ci], answer)
       IN /\ res # None
          /\ best # None => ~CompareRaises(res[1], best[1])
          /\ queries' = Append(queries, Query(res))
          /\ best' = IF Replaces(res[1], best) THEN res ELSE best
  /\ Advance(best')
  /\ UNCHANGED <<pvars, flight_number, cands, fresult, fraised>>

\* Lines 167-169: the query gives a match and the comparison with the best
\* match so far raises TypeError, which nothing catches.
QueryCompareRaises ==
  /\ fpc = "query"
  /\ best # None
  /\ \E answer \in Answers :
       LET res == QueryCallsign(Providers[prov], cands[ci], answer)
       IN /\ res # None
          /\ CompareRaises(res[1], best[1])
          /\ queries' = Append(queries, Query(res))
  /\ fraised' = Some("TypeError")
  /\ fpc' = "done"
  /\ UNCHANGED <<pvars, flight_number, cands, prov, ci, best, fresult>>

\* Lines 174-178: no provider matched.
FlightNoMatch ==
  /\ fpc = "build"
  /\ best = None
  /\ fresult' = Some(FlightError(NoMatchError))
  /\ fpc' = "done"
  /\ UNCHANGED <<pvars, flight_number, cands, prov, ci, best, queries, fraised>>

\* Lines 180-208: the dict of the match.
FlightMatch ==
  /\ fpc = "build"
  /\ best # None
  /\ fresult' = Some(FlightReport(best[1]))
  /\ fpc' = "done"
  /\ UNCHANGED <<pvars, flight_number, cands, prov, ci, best, queries, fraised>>

NextFlight ==
  \/ FlightBlank
  \/ FlightCandidates
  \/ QueryNoMatch
  \/ QueryMatch
  \/ QueryCompareRaises
  \/ FlightNoMatch
  \/ FlightMatch

SpecFlight == InitFlight /\ [][NextFlight]_vars

\* ============================================================ the claims

InvalidTargetReport == Some(TextReport(<<"Invalid target">>))

\* The subprocess runs and the connects of the call so far.
Runs == {i \in 1..Len(events) : events[i].op = "run"}
Connects == {i \in 1..Len(events) : events[i].op = "connect"}

HasBadChar(s) == \E i \in 1..Len(s) : s[i] \notin AllowedChars

\* C1, as stated: a target that is empty after trimming, or that holds any
\* character outside the allow-list, makes ping return "Invalid target", and
\* no subprocess is run and no connect is made at any point of the call.
C1_AnyBadCharRejected ==
  (Strip(raw) = << >> \/ HasBadChar(raw)) =>
    /\ Runs = {} /\ Connects = {}
    /\ pc = "done" => result = InvalidTargetReport

\* C1, amended: a target that, once trimmed of the white space around it, is
\* empty or holds a character outside the allow-list makes ping return
\* "Invalid target"; no subprocess is run and no connect is made at any
\* point of the call, and the call ends at once.
C1_TrimmedBadCharRejected ==
  (Strip(raw) = << >> \/ HasBadChar(Strip(raw))) =>
    /\ Runs = {} /\ Connects = {}
    /\ pc \in {"call", "done"}
    /\ pc = "done" => result = InvalidTargetReport /\ raised = None

\* A target with a character outside the allow-list between two allowed
\* ones has been rejected.
C1_Witness ==
  /\ pc = "done"
  /\ Len(raw) = 3 /\ raw[1] = "a" /\ raw[2] = ";" /\ raw[3] = "7"
  /\ result = InvalidTargetReport
  /\ events = << >>

\* The call has parsed its target: host and port are those of
\* _split_host_port.
Parsed == target # None /\ pc \notin {"call", "split"}

\* The Step 1 rules, read off the claim: for a bracketed target, the text
\* between the brackets with the integer after "]:", or with no port when
\* nothing follows "]", and the whole string with no port otherwise; for a
\* target with several colons the whole string; for one colon host and
\* integer port, or the whole string when the port is no integer.
Step1Bracketed(t) ==
  LET k == Find(t, "]")
      inner == SubSeq(t, 2, k - 1)
      rest == SubSeq(t, k + 1, Len(t))
  IN IF k # 0 /\ rest = << >> THEN [host |-> inner, port |-> None]
     ELSE IF k # 0 /\ StartsWith(rest, ":") /\ IntParse(Tail(rest)) # None
       THEN [host |-> inner, port |-> IntParse(Tail(rest))]
     ELSE [host |-> t, port |-> None]

Step1Rules(t) ==
  IF StartsWith(t, "[") THEN Step1Bracketed(t)
  ELSE IF Count(t, ":") = 1 /\ IntParse(SubSeq(t, RFind(t, ":") + 1, Len(t))) # None
    THEN [host |-> SubSeq(t, 1, RFind(t, ":") - 1),
          port |-> IntParse(SubSeq(t, RFind(t, ":") + 1, Len(t)))]
  ELSE [host |-> t, port |-> None]

\* C2: for every sanitised target the host and port that _split_host_port
\* returns are those of the Step 1 rules.
C2_SplitFollowsStep1 ==
  Parsed => host = Step1Rules(target[1]).host /\ port = Step1Rules(target[1]).port

\* The ICMP attempt of the call has been made and has failed.
IcmpFailed == Parsed /\ pc \in {"icmp_done", "tcp", "done"} /\ ~ok

\* The ICMP attempt of the call has been made and the utility has succeeded.
IcmpSucceeded == Parsed /\ pc \in {"icmp_done", "done"} /\ ok

\* The failure text of a failed attempt: stderr trimmed, else stdout trimmed,
\* else the text ping puts in their place.
ReasonShown ==
  IF Strip(err) # << >> THEN Strip(err)
  ELSE IF Strip(out) # << >> THEN Strip(out)
  ELSE <<"ICMP", " ping failed">>

\* A text holds a trigger, letter case apart.
HasTrigger(text) ==
  \E i \in 1..Len(text) :
    Lower(text[i]) \in
      {"not found", "operation not permitted", "permission denied", "cap_net_raw", "icmp"}

IsTcpTable(r) == r # None /\ r[1].kind = "tcp" /\ r[1].columns = TcpColumns

\* C3: when the ICMP attempt fails with a trigger in its failure text, ping
\* returns a TCP table, and the port probed and shown is the port parsed
\* from the target when the target carried one, 443 otherwise.
C3_FallbackOnParsedPort ==
  (IcmpFailed /\ HasTrigger(ReasonShown) /\ pc = "done") =>
    LET want == IF port # None THEN port[1] ELSE tcp_default_port
    IN /\ IsTcpTable(result)
       /\ result[1].row.Port = ToString(want)
       /\ \A i \in Connects : events[i].arg = want

\* C4: when the ICMP attempt fails with no trigger in its failure text, ping
\* returns that text, trimmed and in its original letter case, and no
\* connect is made during the call.
C4_FailureTextVerbatim ==
  (IcmpFailed /\ ~HasTrigger(ReasonShown)) =>
    /\ Connects = {}
    /\ pc # "tcp"
    /\ pc = "done" => result = Some(TextReport(ReasonShown)) /\ raised = None

\* A failure text with an upper-case letter and white space around it has
\* been returned.
C4_Witness ==
  /\ IcmpFailed /\ pc = "done"
  /\ err = <<" ", "Unknown host", "\n">>
  /\ result = Some(TextReport(<<"Unknown host">>))
  /\ Connects = {}

\* The kinds of report, each a string of the program.
ReportKinds == {"text", "icmp", "tcp"}

\* C5: whatever the target and whatever the subprocess and the connects do,
\* no exception leaves ping, the call can always go on until it returns, and
\* what it returns is a string.
C5_NoExceptionEscapes ==
  /\ raised = None
  /\ pc # "done" => ENABLED Next
  /\ pc = "done" => result # None /\ result[1].kind \in ReportKinds

\* A call whose subprocess launch raised, and whose connect then raised on a
\* port outside the valid range, has returned a TCP table.
C5_Witness ==
  /\ pc = "done"
  /\ IsTcpTable(result)
  /\ \E e \in RunExceptions : err = e.text
  /\ port # None /\ port[1] > 65535
  /\ \E i \in 1..Len(attempts_log) : attempts_log[i].exc.type = "OverflowError"

\* The tokens of the two streams, and whether one of them matches each
\* pattern.
StreamTokens == {(out \o err)[i] : i \in 1..Len(out \o err)}
HasPacketsUnix == \E t \in StreamTokens : MatchPacketsUnix(t) # None
HasRttUnix == \E t \in StreamTokens : MatchRttUnix(t) # None
HasPacketsWin == \E t \in StreamTokens : MatchPacketsWin(t) # None
HasRttWin == \E t \in StreamTokens : MatchRttWin(t) # None

\* The RTT columns of a parsed table all show the unknown-marker.
RttUnknown(row, mdev) ==
  /\ row.Min = "-" /\ row.Avg = "-" /\ row.Max = "-"
  /\ mdev => row.Mdev = "-"

TcpReported == pc = "done" /\ IsTcpTable(result)

AllFailed == \A i \in 1..Len(attempts_log) : ~attempts_log[i].ok

\* C7: when every connection attempt of the fallback fails, the report is a
\* TCP table whose summary row shows Success 0 and Fail the configured number
\* of attempts (4 by default), shows not-a-number for Min, Avg and Max, and
\* is followed by an error table of at most 3 rows.
C7_AllFailedReport ==
  (pc = "done" /\ IcmpFailed /\ HasTrigger(ReasonShown) /\ AllFailed) =>
    /\ IsTcpTable(result)
    /\ result[1].row.Type = "TCP"
    /\ result[1].row.Attempts = ToString(tcp_attempts)
    /\ result[1].row.Success = "0"
    /\ result[1].row.Fail = ToString(tcp_attempts)
    /\ tcp_attempts = tcp_attempts_default => result[1].row.Fail = "4"
    /\ result[1].row.Min = "nan" /\ result[1].row.Avg = "nan" /\ result[1].row.Max = "nan"
    /\ result[1].errors # None
    /\ Len(result[1].errors[1]) >= 1 /\ Len(result[1].errors[1]) <= 3

\* Four attempts have failed and the report lists three errors.
C7_Witness ==
  /\ TcpReported /\ AllFailed
  /\ tcp_attempts = 4 /\ Len(errors) = 4
  /\ result[1].row.Fail = "4"
  /\ Len(result[1].errors[1]) = 3

\* The connects of the call are its first n attempts, in order.
Successes == {i \in 1..Len(attempts_log) : attempts_log[i].ok}

\* C8: the fallback makes exactly the configured number of connects, one
\* after the other, whatever the earlier ones gave; after the loop the
\* samples and the errors together number the attempts, and the summary row
\* has Success + Fail = Attempts, Success being the number of connects that
\* succeeded.
C8_FixedAttemptCount ==
  /\ pc = "tcp" =>
       /\ Cardinality(Connects) = Len(attempts_log)
       /\ Len(attempts_log) <= tcp_attempts
       /\ Len(samples_ms) + Len(errors) = Len(attempts_log)
  /\ TcpReported =>
       /\ Cardinality(Connects) = tcp_attempts
       /\ Len(attempts_log) = tcp_attempts
       /\ Len(samples_ms) + Len(errors) = tcp_attempts
       /\ result[1].row.Attempts = ToString(tcp_attempts)
       /\ result[1].row.Success = ToString(Cardinality(Successes))
       /\ result[1].row.Fail = ToString(tcp_attempts - Cardinality(Successes))

\* A fallback whose first connect succeeded and whose last one failed has
\* still made all its connects.
C8_Witness ==
  /\ TcpReported
  /\ tcp_attempts >= 3
  /\ attempts_log[1].ok /\ ~attempts_log[tcp_attempts].ok
  /\ Cardinality(Connects) = tcp_attempts

\* The ports of the data model.
ValidPorts == 1..65535

\* C9: every port that parsing yields and every port passed to a connect is
\* an integer from 1 to 65535.
C9_PortsInRange ==
  /\ (Parsed /\ port # None) => port[1] \in ValidPorts
  /\ \A i \in Connects : events[i].arg \in ValidPorts

\* C10: the fallback is decided on stderr and stdout together: when either
\* stream holds a trigger, the failed call ends in the TCP table.
C10_FallbackOnEitherStream ==
  (IcmpFailed /\ pc = "done" /\ (HasTrigger(err) \/ HasTrigger(out))) =>
    IsTcpTable(result)

\* C11: in one call the ping utility is run at most once, and a connect is
\* made only once the single ICMP attempt is over, has failed and left a
\* trigger in its failure text: no connect comes before the run, and none
\* while the attempt is still under way.
C11_IcmpOnceThenTcp ==
  /\ Cardinality(Runs) <= 1
  /\ \A i \in Runs : \A j \in Connects : i < j
  /\ Connects # {} =>
       /\ IcmpFailed /\ HasTrigger(ReasonShown)
       /\ pc \in {"tcp", "done"}
  /\ pc \in {"call", "split", "icmp", "icmp_done"} => Connects = {}
  /\ pc \in {"call", "split", "icmp"} => Runs = {}

\* The utility has been run once and has failed, and the connects of the
\* fallback follow that run.
C11_Witness ==
  /\ pc = "done"
  /\ Cardinality(Runs) = 1
  /\ Cardinality(Connects) >= 2
  /\ events[1].op = "run"

\* The sleeps of the call so far.
Sleeps == {i \in 1..Len(events) : events[i].op = "sleep"}

\* C12: during the fallback a delay of 100 ms lies between every two
\* connects that follow each other, whether the earlier one succeeded or
\* failed.
C12_DelayBetweenAttempts ==
  \A i \in Connects : \A j \in Connects :
    i < j => \E k \in Sleeps : i < k /\ k < j /\ events[k].arg = 100

\* The outcome of the i-th attempt as a row of the breakdown.
AttemptRow(i) ==
  [Attempt |-> ToString(i),
   Latency |-> IF attempts_log[i].ok THEN FormatMs(attempts_log[i].ms) ELSE "failed"]

\* C13: with more than one attempt configured the breakdown of the TCP
\* report has one row per attempt made, in the order of the attempts, each
\* numbered by its position and showing its latency or its failure; with one
\* attempt configured there is no breakdown.
C13_BreakdownRowPerAttempt ==
  TcpReported =>
    IF tcp_attempts > 1
      THEN /\ result[1].breakdown # None
           /\ result[1].breakdown[1] = [i \in 1..tcp_attempts |-> AttemptRow(i)]
      ELSE result[1].breakdown = None

\* The distinct elements of a sequence, in the order of their first
\* occurrence.
RECURSIVE Distinct(_)
Distinct(s) ==
  IF s = << >> THEN << >>
  ELSE LET init == Distinct(SubSeq(s, 1, Len(s) - 1))
           last == s[Len(s)]
       IN IF \E i \in 1..Len(init) : init[i] = last THEN init ELSE Append(init, last)

\* The first n elements of a sequence.
FirstN(s, n) == SubSeq(s, 1, IF Len(s) < n THEN Len(s) ELSE n)

\* C14: the error table of a TCP report lists the first 3 distinct error
\* strings recorded, in the order of their first occurrence, and is absent
\* when no attempt failed.
C14_FirstDistinctErrors ==
  TcpReported =>
    IF errors = << >>
      THEN result[1].errors = None
      ELSE /\ result[1].errors # None
           /\ result[1].errors[1] = FirstN(Distinct(errors), 3)

\* C16: when the ICMP attempt fails and both streams are empty after
\* trimming, ping returns "Ping failed" and does not run the fallback.
C16_EmptyOutputPingFailed ==
  (IcmpFailed /\ Strip(out) = << >> /\ Strip(err) = << >>) =>
    /\ Connects = {}
    /\ pc # "tcp"
    /\ pc = "done" => result = Some(TextReport(<<"Ping failed">>))

\* use_flight returned the dict of a match.
FlightMatched == fpc = "done" /\ fresult # None /\ fresult[1].ok

\* C15: on_ground is true exactly when the ground speed of the matched
\* aircraft is below 40 kt and its altitude is below 2500 ft, a missing
\* value counting as 0; so an aircraft at 40 kt or more is never on the
\* ground.
C15_OnGroundBySpeedAndAltitude ==
  FlightMatched =>
    /\ fresult[1].on_ground <=>
         /\ OrZero(fresult[1].speed_kt) < 40
         /\ OrZero(fresult[1].altitude_ft) < 2500
    /\ OrZero(fresult[1].speed_kt) >= 40 => ~fresult[1].on_ground

\* The queries that gave a match.
Matches == {i \in 1..Len(queries) : queries[i].res # None}

\* The seen-age of a match, 9e9 when it is missing.
AgeOf(r) == IF r.seen_s = None THEN NineE9 ELSE r.seen_s[1]

\* The queries so far are the candidates of each provider in turn.
InListOrder ==
  \A i \in 1..Len(queries) :
    /\ queries[i].provider = ((i - 1) \div Len(cands)) + 1
    /\ queries[i].callsign = cands[((i - 1) % Len(cands)) + 1]

\* C17: the providers are queried in list order, each with every candidate;
\* no provider is queried after one that matched; the result is the match
\* of that provider with the smallest seen-age; whatever the providers
\* answer, nothing is raised and a dict with an ok field is returned, with
\* ok false only when nothing matched.
C17_ProvidersInOrderNeverRaises ==
  /\ InListOrder
  /\ \A i \in Matches : \A j \in 1..Len(queries) :
       queries[j].provider <= queries[i].provider
  /\ fraised = None
  /\ fpc = "done" =>
       /\ fresult # None
       /\ "ok" \in DOMAIN fresult[1]
       /\ ~fresult[1].ok => Matches = {}
       /\ fresult[1].ok =>
            /\ Matches # {}
            /\ Len(queries) % Len(cands) = 0
            /\ \E i \in Matches :
                 /\ fresult[1].source = Providers[queries[i].provider]
                 /\ fresult[1].stale_seconds = queries[i].res[1].seen_s
            /\ \A i \in Matches :
                 AgeOf(queries[i].res[1]) >= AgeOf([seen_s |-> fresult[1].stale_seconds])

====
